---- MODULE Spec2Model ----
(***************************************************************************)
(* Model of the outbound call job of src/agent.py: entrypoint (the         *)
(* orchestrator task), GreetingAgent.on_start (the dialogue task started   *)
(* with asyncio.create_task), and the two retry loops                      *)
(* create_sip_participant_with_retry and hangup_call_with_retry.           *)
(*                                                                         *)
(* Strings are sequences of one-character strings.  Every `await` of the   *)
(* source is a scheduling point: the code between two awaits of one task   *)
(* is one atomic action.  The LiveKit calls (connect, say, listen,         *)
(* create_sip_participant, delete_room, wait_for_participant, shutdown)    *)
(* are the environment: each returns or raises nondeterministically.       *)
(***************************************************************************)
EXTENDS Integers, Sequences, FiniteSets, TLC

VARIABLES
    metadata,          \* ctx.job.metadata, the job input
    phone_number,      \* entrypoint's local phone_number after normalization
    participant,       \* entrypoint's local participant (its identity), None until joined
    epc,               \* position of entrypoint
    dpc,               \* position of the session task (GreetingAgent.on_start)
    userdata,          \* session.userdata : CallState (phone_number, interaction_count)
    dial_i,            \* loop index i of create_sip_participant_with_retry
    hangup_i,          \* loop index i of hangup_call_with_retry
    dialAttempts,      \* number of create_sip_participant invocations
    dialFailures,      \* kinds of the failed dial attempts, in order
    dialDelays,        \* asyncio.sleep arguments of the dial loop, in order
    dialResult,        \* "none" | "ok" | "exhausted" | "error"
    hangupAttempts,    \* number of delete_room attempts (try bodies entered)
    hangupFailures,    \* number of failed hangup attempts
    hangupDelays,      \* asyncio.sleep arguments of the hangup loop, in order
    hangupResult,      \* "none" | "ok" | "exhausted"
    connectCalls,      \* number of ctx.connect() calls
    sessionStarts,     \* number of session.start tasks created
    said,              \* utterances handed to session.say, in order
    spoken,            \* utterances whose session.say has returned, in order
    response,          \* what session.listen returned
    raised,            \* exception raised inside entrypoint's try block
    caught,            \* exception caught by entrypoint's except clause
    propagated,        \* TRUE iff an exception left entrypoint
    shutdownCalls,     \* number of ctx.shutdown() calls
    summary,           \* TRUE iff the "Call completed" summary was logged
    dialRequests,      \* the CreateSIPParticipantRequest of each dial attempt, in order
    waitIdentity,      \* identity passed to ctx.wait_for_participant, None until called
    hangupErrors,      \* kinds of the failed hangup attempts, in order
    trace,             \* the calls on_start has made, in order
    norm_in,           \* input of a stand-alone normalize_phone_number call
    norm_out,          \* its result
    norm_twice         \* the result of normalizing that result again

vars == << metadata, phone_number, participant, epc, dpc, userdata, dial_i, hangup_i,
           dialAttempts, dialFailures, dialDelays, dialResult,
           hangupAttempts, hangupFailures, hangupDelays, hangupResult,
           connectCalls, sessionStarts, said, spoken, response,
           raised, caught, propagated, shutdownCalls, summary,
           dialRequests, waitIdentity, hangupErrors, trace,
           norm_in, norm_out, norm_twice >>

dialVars == << dial_i, dialAttempts, dialRequests, dialFailures, dialDelays, dialResult >>

hangupVars == << hangup_i, hangupAttempts, hangupFailures, hangupErrors, hangupDelays,
                hangupResult >>

dialogueVars == << dpc, userdata, said, spoken, response, trace >>

normVars == << norm_in, norm_out, norm_twice >>

excVars == << raised, caught, propagated, shutdownCalls >>

(***************************************************************************)
(* Program constants                                                       *)
(***************************************************************************)
DialMaxRetries == 3

HangupMaxRetries == 3

ListenTimeout == 10

FlushPause == 2

\* Python None and a truthy non-string JSON value (a number), as values that
\* no string of one-character elements can equal.
None == << "<None>" >>

NonStr == << "<int>" >>

\* the result of a call that has not been made yet
Pending == << "<pending>" >>

(***************************************************************************)
(* normalize_phone_number                                                  *)
(***************************************************************************)
Digits == {"0", "1", "2", "3", "4", "5", "6", "7", "8", "9"}

\* re.sub(r"[^\d+]", "", phone): the class keeps every digit and every '+'
IsKept(c) == c \in Digits \/ c = "+"

re_sub_strip(phone) == SelectSeq(phone, IsKept)

\* re.fullmatch(r"\d{10}", phone)
IsTenDigits(phone) == Len(phone) = 10 /\ \A k \in 1..10 : phone[k] \in Digits

\* variant: the test for an existing '+' is lost, '+' is always prepended
StartsWithPlus_m(phone) == FALSE

\* phone.startswith("+")
StartsWithPlus(phone) == Len(phone) >= 1 /\ phone[1] = "+"

\* re.match(r"^\+[1-9]\d{6,14}$", phone)
MatchesE164(phone) ==
    /\ Len(phone) >= 8
    /\ Len(phone) <= 16
    /\ phone[1] = "+"
    /\ phone[2] \in Digits \ {"0"}
    /\ \A k \in 3..Len(phone) : phone[k] \in Digits

\* variant: the two tests are in the opposite order
AddPrefix_m(phone) ==
    IF ~StartsWithPlus(phone) THEN << "+" >> \o phone
    ELSE IF IsTenDigits(phone) THEN << "+", "9", "1" >> \o phone
    ELSE phone

\* the 10-digit / missing-'+' prefix rules
AddPrefix(phone) ==
    IF IsTenDigits(phone) THEN << "+", "9", "1" >> \o phone
    ELSE IF ~StartsWithPlus(phone) THEN << "+" >> \o phone
    ELSE phone

\* the final `return phone if re.match(...) else None`
ValidateShape(phone) == IF MatchesE164(phone) THEN phone ELSE None

\* defined for None and for strings; a non-string truthy value raises
\* TypeError in re.sub (see MetadataRaises)
normalize_phone_number(phone) ==
    IF phone = None \/ phone = << >> THEN None
    ELSE ValidateShape(AddPrefix(re_sub_strip(phone)))

(***************************************************************************)
(* Metadata handling of entrypoint                                         *)
(***************************************************************************)
Keys == << "phone_number", "phoneNumber", "phone", "number" >>

NoFields == [k \in {Keys[j] : j \in 1..4} |-> None]

\* json.loads returned a value that is not a dict (a number, a list, null)
ParsesToNonDict(m) == m.type = "str" /\ m.parse = "scalar"

\* json.loads outcome / isinstance dispatch: the dict entrypoint works on
DialInfo(m) ==
    IF m.type = "str" /\ m.parse = "object" THEN m.fields
    ELSE IF m.type = "dict" THEN m.fields
    ELSE NoFields

Truthy(v) == v # None /\ v # << >>

\* variant: the keys are tried in the opposite order
OrChain_m(a, b, c, d) ==
    IF Truthy(d) THEN d ELSE IF Truthy(c) THEN c ELSE IF Truthy(b) THEN b ELSE a

\* a or b or c or d
OrChain(a, b, c, d) ==
    IF Truthy(a) THEN a ELSE IF Truthy(b) THEN b ELSE IF Truthy(c) THEN c ELSE d

PickPhone(info) == OrChain(info[Keys[1]], info[Keys[2]], info[Keys[3]], info[Keys[4]])

\* dial_info.get on a non-dict raises AttributeError; re.sub on a
\* non-string raises TypeError
MetadataRaises(m) ==
    \/ ParsesToNonDict(m)
    \/ PickPhone(DialInfo(m)) = NonStr

\* variant: the early return is missing
ShouldAbort_m(phone) == FALSE

\* `if not phone_number: return`
ShouldAbort(phone) == phone = None

Str10 == << "9", "8", "7", "6", "5", "4", "3", "2", "1", "0" >>

StrE164 == << "+", "1", "4", "1", "5", "5", "5", "5", "2", "6", "7", "1" >>

StrFormatted == << "(", "9", "8", "7", ")", " ", "6", "5", "4", "-", "3", "2", "1", "0" >>

StrAbc == << "a", "b", "c" >>

Str123 == << "1", "2", "3" >>

StrInnerPlus == << "9", "8", "7", "6", "5", "+", "4", "3", "2", "1", "0" >>

F(a, b, c, d) ==
    [k \in {Keys[j] : j \in 1..4} |->
        IF k = Keys[1] THEN a ELSE IF k = Keys[2] THEN b ELSE IF k = Keys[3] THEN c ELSE d]

\* the job inputs explored
MetadataSamples ==
    { [type |-> "other", parse |-> "none", fields |-> NoFields],
      [type |-> "str", parse |-> "blank", fields |-> NoFields],
      [type |-> "str", parse |-> "invalid", fields |-> NoFields],
      [type |-> "str", parse |-> "scalar", fields |-> NoFields],
      [type |-> "str", parse |-> "object", fields |-> NoFields],
      [type |-> "dict", parse |-> "none", fields |-> NoFields],
      [type |-> "str", parse |-> "object", fields |-> F(None, Str10, None, None)],
      [type |-> "str", parse |-> "object", fields |-> F(<< >>, None, StrE164, Str123)],
      [type |-> "dict", parse |-> "none", fields |-> F(None, None, None, StrFormatted)],
      [type |-> "dict", parse |-> "none", fields |-> F(StrAbc, Str10, None, None)],
      [type |-> "dict", parse |-> "none", fields |-> F(Str10, None, StrE164, None)],
      [type |-> "str", parse |-> "object", fields |-> F(None, None, Str123, None)],
      [type |-> "dict", parse |-> "none", fields |-> F(None, None, None, << >>)],
      [type |-> "str", parse |-> "object", fields |-> F(StrInnerPlus, None, None, None)],
      [type |-> "str", parse |-> "object", fields |-> F(NonStr, None, None, None)] }

(***************************************************************************)
(* Dialogue branching of GreetingAgent.on_start                            *)
(***************************************************************************)
UpperCase == << "A", "B", "C", "D", "E", "F", "G", "H", "I", "J", "K", "L", "M",
            "N", "O", "P", "Q", "R", "S", "T", "U", "V", "W", "X", "Y", "Z" >>

LowerCase == << "a", "b", "c", "d", "e", "f", "g", "h", "i", "j", "k", "l", "m",
            "n", "o", "p", "q", "r", "s", "t", "u", "v", "w", "x", "y", "z" >>

LowerChar(c) ==
    IF \E k \in 1..26 : UpperCase[k] = c
    THEN LowerCase[CHOOSE k \in 1..26 : UpperCase[k] = c]
    ELSE c

\* str.lower()
lower(text) == [k \in 1..Len(text) |-> LowerChar(text[k])]

\* `needle in text`
Contains(text, needle) ==
    \E k \in 0..(Len(text) - Len(needle)) :
        \A j \in 1..Len(needle) : text[k + j] = needle[j]

StrYes == << "y", "e", "s" >>

StrNo == << "n", "o" >>

\* `if user_response and user_response.text`
HasText(r) == r.kind = "text" /\ r.text # << >>

\* variant: "no" is tested before "yes"
KeywordBranch_m(reply) ==
    IF Contains(reply, StrNo) THEN "B"
    ELSE IF Contains(reply, StrYes) THEN "A"
    ELSE "C"

\* the if / elif / else chain on the lower-cased reply
KeywordBranch(reply) ==
    IF Contains(reply, StrYes) THEN "A"
    ELSE IF Contains(reply, StrNo) THEN "B"
    ELSE "C"

Branch(r) == IF HasText(r) THEN KeywordBranch(lower(r.text)) ELSE "D"

Texts ==
    { << >>,
      << "y", "e", "s" >>,
      << "Y", "e", "s", " ", "s", "p", "e", "a", "k", "i", "n", "g" >>,
      << "Y", "E", "S" >>,
      << "n", "o" >>,
      << "N", "o", "." >>,
      << "N", "o", " ", "Y", "E", "S" >>,
      << "y", "e", "s", " ", "n", "o" >>,
      << "I", " ", "k", "n", "o", "w" >>,
      << "m", "a", "y", "b", "e", " ", "l", "a", "t", "e", "r" >>,
      << "y", "e", " ", "s" >>,
      << "h", "i" >> }

\* what session.listen(timeout=10) can return: None on timeout, or a
\* transcription carrying a text
ListenResults ==
    { [kind |-> "timeout", text |-> << >>] } \cup { [kind |-> "text", text |-> t] : t \in Texts }

(***************************************************************************)
(* Retry loops                                                             *)
(***************************************************************************)
\* variant: linear instead of exponential delay
Backoff_m(i) == 2 * i

\* asyncio.sleep(2 ** i)
Backoff(i) == 2 ^ i

\* `if i < max_retries - 1`
SleepsAfter(i, max_retries) == i < max_retries - 1

\* variant: off-by-one loop bound, range(max_retries + 1)
HasNext_m(i, max_retries) == i < max_retries

\* `for i in range(max_retries)`: there is an iteration after iteration i
HasNext(i, max_retries) == i + 1 < max_retries

\* api.CreateSIPParticipantRequest(sip_call_to=phone, participant_identity=phone, ...)
SipRequest(phone) == [sip_call_to |-> phone, participant_identity |-> phone]

\* variant: the dial loop catches every Exception, like the hangup loop
DialCatches_m(e) == e \in {"TwirpError", "other"}

\* `except api.TwirpError` of the dial loop
DialCatches(e) == e = "TwirpError"

\* variant: the hangup loop catches only the API error, like the dial loop
HangupCatches_m(e) == e = "TwirpError"

\* `except Exception` of the hangup loop
HangupCatches(e) == e \in {"TwirpError", "other"}

(***************************************************************************)
(* Initial state                                                           *)
(***************************************************************************)
InitCall ==
    /\ phone_number = None
    /\ participant = None
    /\ epc = "start"
    /\ dpc = "none"
    /\ userdata = [phone_number |-> None, interaction_count |-> 0]
    /\ dial_i = 0
    /\ hangup_i = 0
    /\ dialAttempts = 0
    /\ dialFailures = << >>
    /\ dialDelays = << >>
    /\ dialResult = "none"
    /\ hangupAttempts = 0
    /\ hangupFailures = 0
    /\ hangupDelays = << >>
    /\ hangupResult = "none"
    /\ connectCalls = 0
    /\ sessionStarts = 0
    /\ said = << >>
    /\ spoken = << >>
    /\ response = [kind |-> "pending", text |-> << >>]
    /\ raised = "none"
    /\ caught = "none"
    /\ propagated = FALSE
    /\ shutdownCalls = 0
    /\ summary = FALSE
    /\ dialRequests = << >>
    /\ waitIdentity = None
    /\ hangupErrors = << >>
    /\ trace = << >>

\* a call job: the normalizer is exercised through entrypoint only
Init ==
    /\ metadata \in MetadataSamples
    /\ InitCall
    /\ norm_in = None
    /\ norm_out = Pending
    /\ norm_twice = Pending

(***************************************************************************)
(* entrypoint                                                              *)
(***************************************************************************)
\* variant: the clause catches only the RuntimeError of the dial loop
ExceptHandler_m(e) ==
    /\ epc' = "done"
    /\ IF e = "dial_exhausted"
       THEN /\ caught' = e
            /\ shutdownCalls' = shutdownCalls + 1
            /\ propagated' = FALSE
       ELSE /\ propagated' = TRUE
            /\ UNCHANGED << caught, shutdownCalls >>

\* except Exception as e: logger.exception(...); ctx.shutdown()
ExceptHandler(e) ==
    /\ caught' = e
    /\ shutdownCalls' = shutdownCalls + 1
    /\ propagated' = FALSE
    /\ epc' = "done"

\* an exception raised inside the try block of entrypoint
Raise(e) ==
    /\ raised' = e
    /\ ExceptHandler(e)

\* metadata parsing, phone key lookup, normalization, early return, and the
\* call of ctx.connect()
ParseMetadata ==
    /\ epc = "start"
    /\ IF MetadataRaises(metadata)
       THEN /\ Raise("metadata")
            /\ UNCHANGED << phone_number, connectCalls >>
       ELSE LET p == normalize_phone_number(PickPhone(DialInfo(metadata))) IN
            /\ phone_number' = p
            /\ IF ShouldAbort(p)
               THEN /\ epc' = "done"
                    /\ UNCHANGED connectCalls
               ELSE /\ epc' = "connect"
                    /\ connectCalls' = connectCalls + 1
            /\ UNCHANGED excVars
    /\ UNCHANGED << normVars, waitIdentity, metadata, participant, dialVars, hangupVars,
                    dialogueVars, sessionStarts, summary >>

\* ctx.connect() returns; VAD/TTS/AgentSession are built; the session task
\* is created; the dial loop issues its first create_sip_participant
ConnectReturns ==
    /\ epc = "connect"
    /\ \E o \in {"ok", "connect", "load"} :
        IF o = "ok"
        THEN /\ userdata' = [phone_number |-> phone_number, interaction_count |-> 0]
             /\ sessionStarts' = sessionStarts + 1
             /\ dpc' = "wait_for_connection"
             /\ dial_i' = 0
             /\ dialAttempts' = dialAttempts + 1
             /\ dialRequests' = Append(dialRequests, SipRequest(phone_number))
             /\ epc' = "dial"
             /\ UNCHANGED excVars
        ELSE /\ Raise(o)
             /\ UNCHANGED << userdata, sessionStarts, dpc, dial_i, dialAttempts, dialRequests >>
    /\ UNCHANGED << normVars, waitIdentity, metadata, phone_number, participant, dialFailures,
                    dialDelays, dialResult, hangupVars, connectCalls, said, spoken, response,
                    trace, summary >>

\* the dial loop moves on after a caught failure: the next iteration issues
\* the next create_sip_participant, or the loop ends and RuntimeError is raised
DialLoopAdvance ==
    IF HasNext(dial_i, DialMaxRetries)
    THEN /\ dial_i' = dial_i + 1
         /\ dialAttempts' = dialAttempts + 1
         /\ dialRequests' = Append(dialRequests, SipRequest(phone_number))
         /\ epc' = "dial"
         /\ UNCHANGED << dialResult, excVars >>
    ELSE /\ dialResult' = "exhausted"
         /\ Raise("dial_exhausted")
         /\ UNCHANGED << dial_i, dialAttempts, dialRequests >>

\* one create_sip_participant call returns or raises
DialAttemptReturns ==
    /\ epc = "dial"
    /\ \E o \in {"ok", "TwirpError", "other"} :
        IF o = "ok"
        THEN /\ dialResult' = "ok"
             /\ epc' = "wait_for_participant"
             /\ UNCHANGED << dial_i, dialAttempts, dialRequests, dialFailures, dialDelays, excVars >>
        ELSE /\ dialFailures' = Append(dialFailures, o)
             /\ IF DialCatches(o)
                THEN IF SleepsAfter(dial_i, DialMaxRetries)
                     THEN /\ dialDelays' = Append(dialDelays, Backoff(dial_i))
                          /\ epc' = "dial_sleep"
                          /\ UNCHANGED << dial_i, dialAttempts, dialRequests, dialResult, excVars >>
                     ELSE /\ DialLoopAdvance
                          /\ UNCHANGED dialDelays
                ELSE /\ dialResult' = "error"
                     /\ Raise("dial_other")
                     /\ UNCHANGED << dial_i, dialAttempts, dialRequests, dialDelays >>
    /\ UNCHANGED << normVars, metadata, phone_number, participant, hangupVars, dialogueVars,
                    connectCalls, sessionStarts, summary >>
    /\ waitIdentity' = IF dialResult' = "ok" THEN phone_number ELSE waitIdentity

\* the backoff sleep of the dial loop ends
DialBackoffElapses ==
    /\ epc = "dial_sleep"
    /\ DialLoopAdvance
    /\ UNCHANGED << normVars, waitIdentity, metadata, phone_number, participant, dialFailures,
                    dialDelays, hangupVars, dialogueVars, connectCalls, sessionStarts, summary >>

\* ctx.wait_for_participant(identity=phone_number) returns or raises
WaitForParticipantReturns ==
    /\ epc = "wait_for_participant"
    /\ \E o \in {"ok", "wait_for_participant"} :
        IF o = "ok"
        THEN /\ participant' = phone_number
             /\ epc' = "await_session"
             /\ UNCHANGED excVars
        ELSE /\ Raise(o)
             /\ UNCHANGED participant
    /\ UNCHANGED << normVars, waitIdentity, metadata, phone_number, dialVars, hangupVars,
                    dialogueVars, connectCalls, sessionStarts, summary >>

\* variant: the summary is logged in a finally clause, also after an exception
SessionTaskAwaited_m ==
    /\ epc = "await_session"
    /\ dpc \in {"done", "failed"}
    /\ IF dpc = "done"
       THEN /\ summary' = TRUE
            /\ epc' = "done"
            /\ UNCHANGED excVars
       ELSE /\ Raise("session")
            /\ summary' = TRUE
    /\ UNCHANGED << normVars, waitIdentity, metadata, phone_number, participant, dialVars,
                    hangupVars, dialogueVars, connectCalls, sessionStarts >>

\* `await session_task` completes, then the summary is logged
SessionTaskAwaited ==
    /\ epc = "await_session"
    /\ dpc \in {"done", "failed"}
    /\ IF dpc = "done"
       THEN /\ summary' = TRUE
            /\ epc' = "done"
            /\ UNCHANGED excVars
       ELSE /\ Raise("session")
            /\ UNCHANGED summary
    /\ UNCHANGED << normVars, waitIdentity, metadata, phone_number, participant, dialVars,
                    hangupVars, dialogueVars, connectCalls, sessionStarts >>

\* ctx.shutdown() only requests the job shutdown; the job runtime cancels
\* the still-running session task at some later point
RuntimeCancelsSession ==
    /\ shutdownCalls > 0
    /\ dpc \notin {"none", "done", "failed", "cancelled"}
    /\ dpc' = "cancelled"
    /\ UNCHANGED << normVars, waitIdentity, metadata, phone_number, participant, epc, userdata,
                    dialVars, hangupVars, connectCalls, sessionStarts, said, spoken, response,
                    trace, excVars, summary >>

(***************************************************************************)
(* GreetingAgent.on_start (the session task)                               *)
(***************************************************************************)
\* one call made by on_start: wait_for_connection returning ("ready"),
\* say(text), listen(timeout=secs), asyncio.sleep(secs), hangup_call_with_retry()
Call(op, text, secs) == [op |-> op, text |-> text, secs |-> secs]

\* session.wait_for_connection() returns; session.say(greeting) is called
AudioReady ==
    /\ dpc = "wait_for_connection"
    /\ \E o \in {"ok", "error"} :
        IF o = "ok"
        THEN /\ said' = Append(said, "greeting")
             /\ dpc' = "say_greeting"
        ELSE /\ dpc' = "failed"
             /\ UNCHANGED said
    /\ UNCHANGED << normVars, waitIdentity, metadata, phone_number, participant, epc, userdata,
                    spoken, response, dialVars, hangupVars, connectCalls, sessionStarts, excVars,
                    summary >>
    /\ trace' = IF dpc' = "failed" THEN trace
                 ELSE trace \o << Call("ready", "", 0), Call("say", "greeting", 0) >>

\* say(greeting) returns; interaction_count += 1; session.listen is called
GreetingSpoken ==
    /\ dpc = "say_greeting"
    /\ \E o \in {"ok", "error"} :
        IF o = "ok"
        THEN /\ spoken' = Append(spoken, "greeting")
             /\ userdata' = [userdata EXCEPT !.interaction_count = @ + 1]
             /\ dpc' = "listen"
        ELSE /\ dpc' = "failed"
             /\ UNCHANGED << spoken, userdata >>
    /\ UNCHANGED << normVars, waitIdentity, metadata, phone_number, participant, epc, said,
                    response, dialVars, hangupVars, connectCalls, sessionStarts, excVars,
                    summary >>
    /\ trace' = IF dpc' = "failed" THEN trace
                 ELSE Append(trace, Call("listen", "", ListenTimeout))

\* listen returns a transcription or None (timeout), or raises; the branch
\* reply is chosen and session.say(reply) is called
ListenReturns ==
    /\ dpc = "listen"
    /\ \/ \E r \in ListenResults :
            /\ response' = r
            /\ said' = Append(said, Branch(r))
            /\ dpc' = "say_reply"
       \/ /\ dpc' = "failed"
          /\ UNCHANGED << response, said >>
    /\ UNCHANGED << normVars, waitIdentity, metadata, phone_number, participant, epc, userdata,
                    spoken, dialVars, hangupVars, connectCalls, sessionStarts, excVars, summary >>
    /\ trace' = IF dpc' = "failed" THEN trace
                 ELSE Append(trace, Call("say", said'[Len(said')], 0))

\* variant: the pause is missing, the hangup starts as soon as say returns
ReplySpoken_m ==
    /\ dpc = "say_reply"
    /\ \E o \in {"ok", "error"} :
        IF o = "ok"
        THEN /\ spoken' = Append(spoken, said[Len(said)])
             /\ hangup_i' = 0
             /\ hangupAttempts' = hangupAttempts + 1
             /\ dpc' = "hangup"
             /\ trace' = Append(trace, Call("hangup", "", 0))
        ELSE /\ dpc' = "failed"
             /\ UNCHANGED << spoken, hangup_i, hangupAttempts, trace >>
    /\ UNCHANGED << normVars, waitIdentity, metadata, phone_number, participant, epc, userdata,
                    said, response, dialVars, hangupFailures, hangupErrors, hangupDelays,
                    hangupResult, connectCalls, sessionStarts, excVars, summary >>

\* say(reply) returns; asyncio.sleep(2) starts
ReplySpoken ==
    /\ dpc = "say_reply"
    /\ \E o \in {"ok", "error"} :
        IF o = "ok"
        THEN /\ spoken' = Append(spoken, said[Len(said)])
             /\ dpc' = "pause"
        ELSE /\ dpc' = "failed"
             /\ UNCHANGED spoken
    /\ UNCHANGED << normVars, waitIdentity, metadata, phone_number, participant, epc, userdata,
                    said, response, dialVars, hangupVars, connectCalls, sessionStarts, excVars,
                    summary >>
    /\ trace' = IF dpc' = "failed" THEN trace
                 ELSE Append(trace, Call("sleep", "", FlushPause))

\* the 2-unit pause ends; hangup_call_with_retry issues its first delete_room
PauseElapses ==
    /\ dpc = "pause"
    /\ hangup_i' = 0
    /\ hangupAttempts' = hangupAttempts + 1
    /\ dpc' = "hangup"
    /\ UNCHANGED << normVars, waitIdentity, metadata, phone_number, participant, epc, userdata,
                    said, spoken, response, dialVars, hangupFailures, hangupErrors, hangupDelays,
                    hangupResult, connectCalls, sessionStarts, excVars, summary >>
    /\ trace' = Append(trace, Call("hangup", "", 0))

\* the hangup loop moves on after a caught failure: the next iteration
\* issues the next delete_room, or the loop ends, the exhaustion is logged
\* and on_start returns
HangupLoopAdvance ==
    IF HasNext(hangup_i, HangupMaxRetries)
    THEN /\ hangup_i' = hangup_i + 1
         /\ hangupAttempts' = hangupAttempts + 1
         /\ dpc' = "hangup"
         /\ UNCHANGED hangupResult
    ELSE /\ hangupResult' = "exhausted"
         /\ dpc' = "done"
         /\ UNCHANGED << hangup_i, hangupAttempts >>

\* one delete_room attempt returns or raises
DeleteRoomReturns ==
    /\ dpc = "hangup"
    /\ \E o \in {"ok", "TwirpError", "other"} :
        IF o = "ok"
        THEN /\ hangupResult' = "ok"
             /\ dpc' = "done"
             /\ UNCHANGED << hangup_i, hangupAttempts, hangupFailures, hangupErrors, hangupDelays >>
        ELSE /\ hangupFailures' = hangupFailures + 1
             /\ hangupErrors' = Append(hangupErrors, o)
             /\ IF HangupCatches(o)
                THEN IF SleepsAfter(hangup_i, HangupMaxRetries)
                     THEN /\ hangupDelays' = Append(hangupDelays, Backoff(hangup_i))
                          /\ dpc' = "hangup_sleep"
                          /\ UNCHANGED << hangup_i, hangupAttempts, hangupResult >>
                     ELSE /\ HangupLoopAdvance
                          /\ UNCHANGED hangupDelays
                ELSE /\ hangupResult' = "error"
                     /\ dpc' = "failed"
                     /\ UNCHANGED << hangup_i, hangupAttempts, hangupDelays >>
    /\ UNCHANGED << normVars, waitIdentity, metadata, phone_number, participant, epc, userdata,
                    said, spoken, response, trace, dialVars, connectCalls, sessionStarts,
                    excVars, summary >>

\* the backoff sleep of the hangup loop ends
HangupBackoffElapses ==
    /\ dpc = "hangup_sleep"
    /\ HangupLoopAdvance
    /\ UNCHANGED << normVars, waitIdentity, metadata, phone_number, participant, epc, userdata,
                    said, spoken, response, trace, dialVars, hangupFailures, hangupErrors,
                    hangupDelays, connectCalls, sessionStarts, excVars, summary >>

DialogueStep ==
    \/ AudioReady
    \/ GreetingSpoken
    \/ ListenReturns
    \/ ReplySpoken
    \/ PauseElapses
    \/ DeleteRoomReturns
    \/ HangupBackoffElapses

Next ==
    \/ ParseMetadata
    \/ ConnectReturns
    \/ DialAttemptReturns
    \/ DialBackoffElapses
    \/ WaitForParticipantReturns
    \/ SessionTaskAwaited
    \/ RuntimeCancelsSession
    \/ AudioReady
    \/ GreetingSpoken
    \/ ListenReturns
    \/ ReplySpoken
    \/ PauseElapses
    \/ DeleteRoomReturns
    \/ HangupBackoffElapses

Spec == Init /\ [][Next]_vars

\* wait_for_participant returns the callee
WaitReturnsParticipant == WaitForParticipantReturns /\ participant' # None

\* delete_room has succeeded: the room and its participants are gone
RoomDeleted == hangupResult = "ok"

\* Scheduling: the event loop runs every ready task, every sleep and the
\* listen timeout elapse, every request to the bridge or the dialogue engine
\* gets an answer.  ctx.wait_for_participant is a wait for an event, without
\* timeout: it returns the callee for as long as the room exists, and nothing
\* makes it return or raise once the room has been deleted.
FairSpec ==
    /\ Spec
    /\ WF_vars(ParseMetadata)
    /\ WF_vars(ConnectReturns)
    /\ WF_vars(DialAttemptReturns)
    /\ WF_vars(DialBackoffElapses)
    /\ WF_vars(~RoomDeleted /\ WaitReturnsParticipant)
    /\ WF_vars(SessionTaskAwaited)
    /\ WF_vars(AudioReady)
    /\ WF_vars(GreetingSpoken)
    /\ WF_vars(ListenReturns)
    /\ WF_vars(ReplySpoken)
    /\ WF_vars(PauseElapses)
    /\ WF_vars(DeleteRoomReturns)
    /\ WF_vars(HangupBackoffElapses)

(***************************************************************************)
(* normalize_phone_number on its own, over a bounded family of strings     *)
(***************************************************************************)
MaxAffix == 2

MaxRun == 14

AffixChars == {"+", "0", "1", "-"}

RunDigits == {"0", "7"}

Affixes == UNION {[1..k -> AffixChars] : k \in 0..MaxAffix}

Run(d, n) == [j \in 1..n |-> d]

\* the argument strings: a run of one digit between two short free strings
NormInputs ==
    {p \o Run(d, n) \o q : p \in Affixes, q \in Affixes, d \in RunDigits, n \in 0..MaxRun}

NormInit ==
    /\ metadata = [type |-> "other", parse |-> "none", fields |-> NoFields]
    /\ InitCall
    /\ norm_in \in NormInputs \cup {None}
    /\ norm_out = Pending
    /\ norm_twice = Pending

\* normalize_phone_number(norm_in)
Normalize ==
    /\ norm_out = Pending
    /\ norm_out' = normalize_phone_number(norm_in)
    /\ UNCHANGED << norm_in, norm_twice, metadata, phone_number, participant, epc, dialVars,
                    hangupVars, dialogueVars, excVars, connectCalls, sessionStarts, summary,
                    waitIdentity >>

\* normalize_phone_number applied to its own result
NormalizeAgain ==
    /\ norm_out # Pending
    /\ norm_twice = Pending
    /\ norm_twice' = normalize_phone_number(norm_out)
    /\ UNCHANGED << norm_in, norm_out, metadata, phone_number, participant, epc, dialVars,
                    hangupVars, dialogueVars, excVars, connectCalls, sessionStarts, summary,
                    waitIdentity >>

NormNext ==
    \/ Normalize
    \/ NormalizeAgain

NormSpec == NormInit /\ [][NormNext]_vars

TypeOK ==
    /\ epc \in {"start", "connect", "dial", "dial_sleep", "wait_for_participant",
                "await_session", "done"}
    /\ dpc \in {"none", "wait_for_connection", "say_greeting", "listen", "say_reply",
                "pause", "hangup", "hangup_sleep", "done", "failed", "cancelled"}
    /\ shutdownCalls \in 0..1
    /\ dialAttempts \in Nat
    /\ hangupAttempts \in Nat

(***************************************************************************)
(* Properties                                                              *)
(***************************************************************************)
\* teardowns initiated so far: hangup_call_with_retry entered (0 or 1
\* times) plus the ctx.shutdown() calls
Teardowns == (IF hangupAttempts > 0 THEN 1 ELSE 0) + shutdownCalls

\* C1: at the step in which entrypoint finishes a job that got past phone
\* validation, exactly one teardown (hangup_call_with_retry or ctx.shutdown)
\* has been initiated, never zero and never two.
C1_TornDownExactlyOnce ==
    [][(epc # "done" /\ epc' = "done" /\ phone_number' # None) => Teardowns' = 1]_vars

\* C2: the agent hands no utterance to session.say before a
\* create_sip_participant attempt has succeeded, and says nothing at all in
\* a run whose dial attempts are exhausted.
C2_NoDialogueWithoutCallee ==
    /\ said # << >> => dialResult = "ok"
    /\ dialResult = "exhausted" => said = << >>

\* C3: once the exhaustion of the dial attempts has been handled, the
\* session task takes no further step of on_start (it may only be cancelled).
C3_DialogueStopsAfterDialFailure ==
    [][caught = "dial_exhausted" => dpc' \in {dpc, "cancelled"}]_vars

\* C4 as stated: a loop that returned success made (failures + 1) attempts;
\* a loop whose attempts all failed made exactly max_retries attempts and
\* reported exhaustion.
C4_RetryCountsAnyFailure ==
    /\ dialResult = "ok" => dialAttempts = Len(dialFailures) + 1
    /\ dialResult \in {"exhausted", "error"} =>
          /\ dialAttempts = DialMaxRetries
          /\ dialResult = "exhausted"
    /\ hangupResult = "ok" => hangupAttempts = hangupFailures + 1
    /\ hangupResult \in {"exhausted", "error"} =>
          /\ hangupAttempts = HangupMaxRetries
          /\ hangupResult = "exhausted"

OnlyTwirp(failures) == \A j \in 1..Len(failures) : failures[j] = "TwirpError"

\* C4 (amended): as C4 for failures the loop catches (api.TwirpError for the
\* dial loop, any Exception for the hangup loop): k < max_retries caught
\* failures then a success give exactly k+1 attempts and no further one;
\* max_retries caught failures give exactly max_retries attempts and
\* exhaustion.  A dial attempt failing with any other error ends the dial
\* loop at that attempt.
C4_RetryCounts ==
    /\ dialResult = "ok" =>
          /\ dialAttempts = Len(dialFailures) + 1
          /\ Len(dialFailures) < DialMaxRetries
          /\ OnlyTwirp(dialFailures)
          /\ epc \notin {"dial", "dial_sleep"}
    /\ dialResult = "exhausted" =>
          /\ dialAttempts = DialMaxRetries
          /\ Len(dialFailures) = DialMaxRetries
          /\ epc = "done"
    /\ (OnlyTwirp(dialFailures) /\ Len(dialFailures) >= DialMaxRetries) =>
          dialResult = "exhausted"
    /\ dialResult = "error" =>
          /\ dialAttempts = Len(dialFailures)
          /\ dialFailures[Len(dialFailures)] = "other"
          /\ OnlyTwirp(SubSeq(dialFailures, 1, Len(dialFailures) - 1))
    /\ hangupResult = "ok" =>
          /\ hangupAttempts = hangupFailures + 1
          /\ hangupFailures < HangupMaxRetries
          /\ dpc \notin {"hangup", "hangup_sleep"}
    /\ hangupResult = "exhausted" =>
          /\ hangupAttempts = HangupMaxRetries
          /\ hangupFailures = HangupMaxRetries
    /\ hangupFailures >= HangupMaxRetries => hangupResult = "exhausted"
    /\ hangupResult # "error"

C4_Witness ==
    /\ dialResult = "ok"
    /\ Len(dialFailures) = 2
    /\ hangupResult = "exhausted"

\* C5: in both retry loops the delay slept after the failed attempt with
\* index i is 2^i, nothing is slept after the last attempt, and an
\* always-failing run of 3 attempts sleeps exactly 1, 2.
C5_BackoffDelays ==
    /\ \A j \in 1..Len(dialDelays) : dialDelays[j] = 2 ^ (j - 1)
    /\ \A j \in 1..Len(hangupDelays) : hangupDelays[j] = 2 ^ (j - 1)
    /\ epc = "dial_sleep" => Len(dialDelays) = dial_i + 1
    /\ dpc = "hangup_sleep" => Len(hangupDelays) = hangup_i + 1
    /\ Len(dialDelays) <= DialMaxRetries - 1
    /\ Len(hangupDelays) <= HangupMaxRetries - 1
    /\ dialResult = "exhausted" => dialDelays = << 1, 2 >>
    /\ hangupResult = "exhausted" => hangupDelays = << 1, 2 >>

C5_Witness ==
    /\ dialResult = "exhausted"
    /\ hangupResult = "exhausted"

\* C6: hangup_call_with_retry never raises into on_start: the session task
\* never fails once the hangup has started; after 3 failed delete_room
\* attempts on_start has returned normally, and entrypoint, if no
\* orchestrator step of its own raised, logs the summary and finishes
\* without calling ctx.shutdown and without raising.
C6_HangupNeverRaises ==
    /\ hangupAttempts > 0 => dpc # "failed" /\ raised # "session"
    /\ hangupResult = "exhausted" => dpc = "done"
    /\ (hangupResult = "exhausted" /\ epc = "done" /\ participant # None) =>
          /\ summary
          /\ shutdownCalls = 0
          /\ ~propagated

C6_Witness ==
    /\ hangupResult = "exhausted"
    /\ hangupFailures = 3
    /\ epc = "done"
    /\ summary

\* the job input carries no usable phone number: metadata handling raises,
\* or the picked value is missing, empty or rejected by normalization
NoValidPhone(m) ==
    \/ MetadataRaises(m)
    \/ normalize_phone_number(PickPhone(DialInfo(m))) = None

\* C7: a job whose metadata has no phone field, is unparseable or carries a
\* rejected value makes no ctx.connect, starts no session, makes no
\* create_sip_participant and no delete_room call, and never retries.
C7_InvalidInputNoNetwork ==
    NoValidPhone(metadata) =>
        /\ connectCalls = 0
        /\ sessionStarts = 0
        /\ dialAttempts = 0
        /\ hangupAttempts = 0
        /\ dialDelays = << >>
        /\ hangupDelays = << >>
        /\ said = << >>
        /\ epc \in {"start", "done"}

C7_Witness ==
    /\ epc = "done"
    /\ ~MetadataRaises(metadata)
    /\ PickPhone(DialInfo(metadata)) = StrAbc
    /\ phone_number = None

\* C8: an exception raised at any orchestrator step is caught by
\* entrypoint's except clause, which calls ctx.shutdown exactly once and
\* lets entrypoint return normally; no exception leaves entrypoint.
C8_ExceptionsCaught ==
    /\ raised # "none" =>
          /\ caught = raised
          /\ shutdownCalls = 1
          /\ epc = "done"
    /\ ~propagated
    /\ shutdownCalls <= 1
    /\ shutdownCalls = 1 => raised # "none"

C8_Witness ==
    /\ raised = "session"
    /\ shutdownCalls = 1
    /\ epc = "done"

\* C9: delete_room is issued only after the dial has succeeded and
\* wait_for_participant has returned the callee.
C9_TeardownAfterCalleeObserved ==
    hangupAttempts > 0 => (dialResult = "ok" /\ participant # None)

\* C10: the branch reply handed to session.say is A when the lower-cased
\* text contains "yes", B when it contains "no" and not "yes", C when it is
\* non-empty and contains neither, D when the listen timed out; no dialogue
\* says more than one branch reply, and a dialogue that got past branching
\* has spoken exactly one.
C10_BranchSelection ==
    /\ Len(said) >= 2 =>
          LET reply == lower(response.text)
              isText == response.kind = "text"
          IN /\ (isText /\ Contains(reply, StrYes)) => said[2] = "A"
             /\ (isText /\ Contains(reply, StrNo) /\ ~Contains(reply, StrYes)) => said[2] = "B"
             /\ (isText /\ reply # << >> /\ ~Contains(reply, StrNo) /\ ~Contains(reply, StrYes))
                   => said[2] = "C"
             /\ response.kind = "timeout" => said[2] = "D"
    /\ Len(said) <= 2
    /\ Len(said) >= 1 => said[1] = "greeting"
    /\ dpc \in {"pause", "hangup", "hangup_sleep", "done"} =>
          /\ Len(spoken) = 2
          /\ spoken[2] = said[2]
          /\ spoken[2] \in {"A", "B", "C", "D"}

C10_Witness ==
    /\ dpc = "done"
    /\ response.kind = "text"
    /\ Contains(lower(response.text), StrNo)
    /\ Contains(response.text, << "Y" >>)
    /\ spoken = << "greeting", "A" >>

\* C11: a listen that returned a transcription enters keyword branching even
\* when its text is empty: the empty text reaches branch C, and branch D is
\* said only after a listen that timed out.
C11_EmptyTextReachesC ==
    Len(said) >= 2 =>
        /\ (response.kind = "text" /\ response.text = << >>) => said[2] = "C"
        /\ said[2] = "D" => response.kind = "timeout"

\* C12: interaction_count equals the number of utterances the agent has
\* finished speaking (1 after the greeting, 2 after the branch reply).
C12_InteractionCountCountsUtterances ==
    userdata.interaction_count = Len(spoken)

\* the value of the first of the four phone keys that is present and non-empty
FirstNonEmpty(fields) ==
    LET idx == {j \in 1..4 : fields[Keys[j]] # None /\ fields[Keys[j]] # << >>}
    IN IF idx = {} THEN None
       ELSE fields[Keys[CHOOSE j \in idx : \A k \in idx : j <= k]]

\* C13: every create_sip_participant request carries the normalized number
\* of the first non-empty phone field as destination and as identity; that
\* number is CallState.phone_number from the creation of the session on, is a
\* valid E.164 number, is the identity wait_for_participant is called with,
\* and stays the same to the end of the call.
C13_DialedNumberFixed ==
    LET n == normalize_phone_number(FirstNonEmpty(metadata.fields))
    IN /\ Len(dialRequests) = dialAttempts
       /\ \A j \in 1..Len(dialRequests) :
             /\ dialRequests[j].sip_call_to = n
             /\ dialRequests[j].participant_identity = n
       /\ sessionStarts > 0 =>
             /\ userdata.phone_number = n
             /\ MatchesE164(n)
       /\ waitIdentity \in {None, n}
       /\ dialResult = "ok" => waitIdentity = n
       /\ participant \in {None, n}

C13_Witness ==
    /\ metadata.fields[Keys[1]] = Str10
    /\ metadata.fields[Keys[3]] = StrE164
    /\ Len(dialRequests) = 3
    /\ participant = << "+", "9", "1" >> \o Str10
    /\ summary

AllDigits(str) == \A k \in 1..Len(str) : str[k] \in Digits

\* the E.164 shape: '+', a non-zero digit, 6 to 14 further digits
E164Shape(str) ==
    /\ Len(str) \in 8..16
    /\ str[1] = "+"
    /\ str[2] # "0"
    /\ AllDigits(SubSeq(str, 2, Len(str)))

\* C14: for every string D of exactly 10 digits, normalize_phone_number(D)
\* is "+91" followed by D.
C14_TenDigitsGetCountryCode ==
    (norm_out # Pending /\ norm_in # None /\ Len(norm_in) = 10 /\ AllDigits(norm_in)) =>
        norm_out = << "+", "9", "1" >> \o norm_in

C14_Witness ==
    /\ norm_in = << "0", "1", "7", "7", "7", "7", "7", "7", "7", "7" >>
    /\ norm_out = << "+", "9", "1", "0", "1", "7", "7", "7", "7", "7", "7", "7", "7" >>

\* C15: normalize_phone_number returns every string of E.164 shape
\* unchanged, and normalizing an accepted result again returns that result.
C15_Idempotent ==
    /\ (norm_out # Pending /\ norm_in # None /\ E164Shape(norm_in)) => norm_out = norm_in
    /\ (norm_twice # Pending /\ norm_out # None) => norm_twice = norm_out

C15_Witness ==
    /\ norm_in # None
    /\ Len(norm_in) = 10
    /\ AllDigits(norm_in)
    /\ norm_out # None
    /\ norm_twice = norm_out

\* the specified stripping: digits are kept, and a '+' is kept only when it
\* is the first kept character
RefStrip(raw) ==
    LET kept == SelectSeq(raw, LAMBDA c : c \in Digits \/ c = "+")
    IN IF kept = << >> THEN << >>
       ELSE << kept[1] >> \o SelectSeq(Tail(kept), LAMBDA c : c \in Digits)

\* the specified normalizer of section 4.1
RefNormalize(raw) ==
    LET stripped == RefStrip(raw)
        prefixed == IF Len(stripped) = 10 /\ AllDigits(stripped)
                    THEN << "+", "9", "1" >> \o stripped
                    ELSE IF stripped = << >> \/ stripped[1] # "+"
                         THEN << "+" >> \o stripped
                         ELSE stripped
    IN IF E164Shape(prefixed) THEN prefixed ELSE None

\* C16: normalize_phone_number returns, on every input string, what the
\* specified normalizer returns.
C16_AgreesWithReference ==
    (norm_out # Pending /\ norm_in # None) => norm_out = RefNormalize(norm_in)

\* the calls of one complete dialogue whose branch reply is b
DialogueScript(b) ==
    << [op |-> "ready", text |-> "", secs |-> 0],
       [op |-> "say", text |-> "greeting", secs |-> 0],
       [op |-> "listen", text |-> "", secs |-> 10],
       [op |-> "say", text |-> b, secs |-> 0],
       [op |-> "sleep", text |-> "", secs |-> 2],
       [op |-> "hangup", text |-> "", secs |-> 0] >>

\* C17: the calls of on_start are, in this order and each at most once:
\* audio ready, say greeting, listen with timeout 10, say one branch reply,
\* sleep 2, hangup; nothing is said before the audio path is ready, and the
\* hangup starts only after the reply has been spoken and the pause is over.
\* Only the delete_room attempts inside the hangup repeat.
C17_DialogueOrder ==
    /\ Len(trace) <= 6
    /\ \E b \in {"A", "B", "C", "D"} : trace = SubSeq(DialogueScript(b), 1, Len(trace))
    /\ Len(said) = Cardinality({j \in 1..Len(trace) : trace[j].op = "say"})
    /\ hangupAttempts > 0 <=> Len(trace) = 6
    /\ hangupAttempts > 0 => Len(spoken) = 2
    /\ dpc = "pause" => Len(trace) = 5

C17_Witness ==
    /\ Len(trace) = 6
    /\ hangupAttempts = 3
    /\ dpc = "done"

C19_DialRetriesOnlyApiError ==
    /\ \A j \in 1..Len(dialFailures) :
          dialFailures[j] = "other" =>
              /\ j = Len(dialFailures)
              /\ dialAttempts = j
              /\ dialResult = "error"
              /\ epc = "done"
              /\ caught = "dial_other"
              /\ shutdownCalls = 1
    /\ Len(dialDelays) =
          Cardinality({j \in 1..Len(dialFailures) :
                          dialFailures[j] = "TwirpError" /\ j < DialMaxRetries})
    /\ dialResult = "error" => dialFailures[Len(dialFailures)] = "other"
    /\ hangupResult # "error"
    /\ Len(hangupErrors) = hangupFailures
    /\ Len(hangupDelays) =
          Cardinality({j \in 1..Len(hangupErrors) : j < HangupMaxRetries})
    /\ hangupAttempts > 0 => dpc # "failed"

C19_Witness ==
    /\ dialFailures = << "other" >>
    /\ dialAttempts = 1
    /\ dialDelays = << >>
    /\ shutdownCalls = 1
    /\ hangupErrors = << "other", "other", "other" >>
    /\ hangupAttempts = 3

\* C20: every call job eventually finishes: entrypoint eventually returns.
C20_EntrypointReturns == <>(epc = "done")

====
